---- MODULE Spec2Model ----
(***************************************************************************)
(* Content importer (main.py): POST /api/import fetches a page, runs       *)
(* extract_text_and_sections on it and stores one SiteContent record;      *)
(* GET /api/content reads stored records back.                             *)
(*                                                                         *)
(* Text is a sequence of characters (one-character strings; a Cyrillic     *)
(* letter is written by its code point, "u0443").  A page (resp.text) is   *)
(* a sequence of markup tokens: start tags, end tags and character data.   *)
(* The parser BeautifulSoup(html, 'html.parser') turns the tokens into a   *)
(* tree: a sequence of nodes in document order, each naming its parent.    *)
(* Comments, doctypes and void elements are not part of the input model.   *)
(***************************************************************************)
EXTENDS Integers, Sequences, FiniteSets, TLC

(***************************************************************************)
(* Python values                                                           *)
(***************************************************************************)
\* None where a string is expected (an absent href, an absent language).
NoneVal == "<None>"
\* The BeautifulSoup object itself: the parent of the top-level nodes.
Root == 0
\* None where an element is expected (soup.find found nothing).
NoNode == 0 - 1

(***************************************************************************)
(* Text                                                                    *)
(***************************************************************************)
UpperChars ==
    <<"A", "B", "C", "D", "E", "F", "G", "H", "I", "J", "K", "L", "M", "N",
      "O", "P", "Q", "R", "S", "T", "U", "V", "W", "X", "Y", "Z", "u041E">>
LowerChars ==
    <<"a", "b", "c", "d", "e", "f", "g", "h", "i", "j", "k", "l", "m", "n",
      "o", "p", "q", "r", "s", "t", "u", "v", "w", "x", "y", "z", "u043E">>

\* str.lower(), per character.
LowerChar(c) ==
    IF \E i \in 1..Len(UpperChars) : UpperChars[i] = c
    THEN LowerChars[CHOOSE i \in 1..Len(UpperChars) : UpperChars[i] = c]
    ELSE c

Lower(s) == [i \in 1..Len(s) |-> LowerChar(s[i])]

IsSpace(c) == c \in {" ", "\n", "\t"}

RECURSIVE StripStr(_)
\* str.strip(): leading and trailing whitespace removed.
StripStr(s) ==
    IF s = <<>> THEN <<>>
    ELSE IF IsSpace(s[1]) THEN StripStr(Tail(s))
    ELSE IF IsSpace(s[Len(s)]) THEN StripStr(SubSeq(s, 1, Len(s) - 1))
    ELSE s

\* k in s (substring test), k not empty.
Contains(s, k) ==
    \E i \in 1..(Len(s) - Len(k) + 1) : SubSeq(s, i, i + Len(k) - 1) = k

\* any(k in s for k in keywords)
ContainsAny(s, keywords) == \E k \in keywords : Contains(s, k)

RECURSIVE Join(_, _)
\* sep.join(parts)
Join(parts, sep) ==
    IF parts = <<>> THEN <<>>
    ELSE IF Len(parts) = 1 THEN parts[1]
    ELSE parts[1] \o sep \o Join(Tail(parts), sep)

\* The elements of a finite set of integers, ascending.
SortedSeq(S) ==
    IF S = {} THEN <<>>
    ELSE LET top == CHOOSE x \in S : \A y \in S : y <= x
         IN  SelectSeq([i \in 1..top |-> i], LAMBDA i : i \in S)

\* xs[:n]
Take(xs, n) == SubSeq(xs, 1, IF Len(xs) < n THEN Len(xs) ELSE n)

(***************************************************************************)
(* Keyword lists                                                           *)
(***************************************************************************)
ServiceKeywords ==
    { <<"s", "e", "r", "v", "i", "c", "e">>,
      <<"u0443", "u0441", "u043B", "u0443", "u0433", "u0438">>,
      <<"u0441", "u0435", "u0440", "u0432", "u0438", "u0441", "u044B">> }

TestimonialKeywords ==
    { <<"u043E", "u0442", "u0437", "u044B", "u0432", "u044B">>,
      <<"t", "e", "s", "t", "i", "m", "o", "n", "i", "a", "l">>,
      <<"f", "e", "e", "d", "b", "a", "c", "k">>,
      <<"u043A", "u043B", "u0438", "u0435", "u043D", "u0442", "u044B", " ",
        "u043E", " ", "u043D", "u0430", "u0441">> }

ContactKeywords ==
    { <<"u043A", "u043E", "u043D", "u0442", "u0430", "u043A", "u0442">>,
      <<"c", "o", "n", "t", "a", "c", "t">>,
      <<"u0441", "u0432", "u044F", "u0437", "u0430", "u0442", "u044C",
        "u0441", "u044F">>,
      <<"u0437", "u0430", "u044F", "u0432", "u043A", "u0430">> }

(***************************************************************************)
(* The parser: BeautifulSoup(html, 'html.parser')                          *)
(***************************************************************************)
OpenTok(name, href) == [k |-> "open", name |-> name, href |-> href, s |-> <<>>]
CloseTok(name) == [k |-> "close", name |-> name, href |-> NoneVal, s |-> <<>>]
TextTok(s) == [k |-> "text", name |-> "#text", href |-> NoneVal, s |-> s]

TagNode(name, href, parent) ==
    [kind |-> "tag", name |-> name, href |-> href, parent |-> parent, s |-> <<>>]
TextNode(s, parent) ==
    [kind |-> "text", name |-> "#text", href |-> NoneVal, parent |-> parent, s |-> s]

\* nodes: the tree so far; cur: the innermost open element; inData: the last
\* token was character data, still being collected into one string.
InitParser == [nodes |-> <<>>, cur |-> Root, inData |-> FALSE]

RECURSIVE OpenAncestor(_, _, _)
\* The innermost open element called name, from e outwards.
OpenAncestor(nodes, e, name) ==
    IF e = Root THEN NoNode
    ELSE IF nodes[e].name = name THEN e
    ELSE OpenAncestor(nodes, nodes[e].parent, name)

\* One token: a start tag opens a child of the current element; an end tag
\* closes the innermost open element of that name with all that is open in
\* it, and is ignored when there is none; adjacent character data is one
\* string.
Feed(p, tok) ==
    CASE tok.k = "open" ->
            [nodes |-> Append(p.nodes, TagNode(tok.name, tok.href, p.cur)),
             cur |-> Len(p.nodes) + 1,
             inData |-> FALSE]
      [] tok.k = "close" ->
            LET e == OpenAncestor(p.nodes, p.cur, tok.name)
            IN  [nodes |-> p.nodes,
                 cur |-> IF e = NoNode THEN p.cur ELSE p.nodes[e].parent,
                 inData |-> FALSE]
      [] OTHER ->
            IF p.inData
            THEN [p EXCEPT !.nodes[Len(p.nodes)].s = @ \o tok.s]
            ELSE [nodes |-> Append(p.nodes, TextNode(tok.s, p.cur)),
                  cur |-> p.cur,
                  inData |-> TRUE]

RECURSIVE FeedAll(_, _)
FeedAll(p, html) ==
    IF html = <<>> THEN p ELSE FeedAll(Feed(p, Head(html)), Tail(html))

\* A string of whitespace only is kept as a single space.
EndData(node) ==
    IF node.kind = "text" /\ node.s # <<>> /\ StripStr(node.s) = <<>>
    THEN [node EXCEPT !.s = <<" ">>]
    ELSE node

\* soup = BeautifulSoup(html, 'html.parser'); tags left open are closed by
\* the end of the input.
ParseHtml(html) ==
    LET p == FeedAll(InitParser, html)
    IN  [i \in 1..Len(p.nodes) |-> EndData(p.nodes[i])]

(***************************************************************************)
(* Tree queries                                                            *)
(***************************************************************************)
RECURSIVE IsUnder(_, _, _)
\* Node i is a descendant of e (every node is a descendant of Root).
IsUnder(d, e, i) ==
    IF e = Root THEN TRUE
    ELSE IF i = Root THEN FALSE
    ELSE d[i].parent = e \/ IsUnder(d, e, d[i].parent)

\* Some element called one of names is i itself or an ancestor of i.
InsideNamed(d, names, i) ==
    \E a \in 1..Len(d) :
        /\ d[a].kind = "tag"
        /\ d[a].name \in names
        /\ (a = i \/ IsUnder(d, a, i))

\* e.get_text(sep, strip=True): the strings under e, each stripped, the
\* empty ones dropped, joined by sep.
get_text(d, e, sep) ==
    LET idx == SortedSeq({i \in 1..Len(d) :
                    /\ d[i].kind = "text"
                    /\ IsUnder(d, e, i)
                    /\ StripStr(d[i].s) # <<>>})
    IN  Join([n \in 1..Len(idx) |-> StripStr(d[idx[n]].s)], sep)

\* soup.find_all(names): the elements with one of the names, document order.
find_all(d, names) ==
    SortedSeq({i \in 1..Len(d) : d[i].kind = "tag" /\ d[i].name \in names})

\* soup.find(name): the first such element, or None.
find(d, name) ==
    LET all == find_all(d, {name})
    IN  IF all = <<>> THEN NoNode ELSE all[1]

\* e.find_next_siblings(limit=limit): the elements (not the strings) after e
\* under e's parent, the first limit of them.
find_next_siblings(d, e, limit) ==
    Take(SortedSeq({j \in 1..Len(d) :
            j > e /\ d[j].kind = "tag" /\ d[j].parent = d[e].parent}), limit)

\* [x for x in xs if x], xs a sequence of strings.
NonEmpty(xs) == SelectSeq(xs, LAMBDA x : x # <<>>)

(***************************************************************************)
(* extract_text_and_sections                                               *)
(***************************************************************************)
Space == <<" ">>
Newline == <<"\n">>

\* One sibling too many.
HeroSiblingLimitPlusOne == 3 + 1
HeroSiblingLimit == 3
ServicesSiblingLimit == 6
ContactSiblingLimit == 6
TestimonialCap == 10

SectionNames == {"hero", "services", "testimonials", "contact"}
\* The list without noscript.
StripNamesNoNoscript == {"script", "style"}
StripNames == {"script", "style", "noscript"}

\* for tag in soup(["script", "style", "noscript"]): tag.extract()
\* The elements with these names leave the tree with all that is in them;
\* the nodes that stay keep their order.
RemoveScriptStyle(d) ==
    LET kept == SortedSeq({i \in 1..Len(d) : ~InsideNamed(d, StripNames, i)})
        rank(i) == CHOOSE n \in 1..Len(kept) : kept[n] = i
    IN  [n \in 1..Len(kept) |->
            [d[kept[n]] EXCEPT !.parent = IF @ = Root THEN Root ELSE rank(@)]]

\* The selector as 'nav > a[href]': the children of a nav only.
SelectNavChildAnchors(d) ==
    SortedSeq({i \in 1..Len(d) :
        /\ d[i].kind = "tag"
        /\ d[i].name = "a"
        /\ d[i].href # NoneVal
        /\ d[i].parent # Root
        /\ d[d[i].parent].kind = "tag"
        /\ d[d[i].parent].name = "nav"})

\* soup.select('nav a[href]')
SelectNavAnchors(d) ==
    SortedSeq({i \in 1..Len(d) :
        /\ d[i].kind = "tag"
        /\ d[i].name = "a"
        /\ d[i].href # NoneVal
        /\ \E n \in 1..Len(d) :
              d[n].kind = "tag" /\ d[n].name = "nav" /\ IsUnder(d, n, i)})

nav_items(d) ==
    LET as == SelectNavAnchors(d)
        items == [n \in 1..Len(as) |->
                    [label |-> get_text(d, as[n], <<>>), href |-> d[as[n]].href]]
    IN  SelectSeq(items, LAMBDA it : it.label # <<>>)

\* The texts of the elements es, the empty ones dropped.
TextsOf(d, es) == NonEmpty([n \in 1..Len(es) |-> get_text(d, es[n], Space)])

\* The hero block entered without the test.
HasH1Always(h1) == TRUE

\* if h1:
HasH1(h1) == h1 # NoNode

hero_text(d, h1) ==
    <<get_text(d, h1, Space)>>
        \o TextsOf(d, find_next_siblings(d, h1, HeroSiblingLimit))

\* A heading's block: its title and the texts after it, one per line.
HeadingBlock(d, hdr, limit) ==
    Join(<<get_text(d, hdr, Space)>> \o TextsOf(d, find_next_siblings(d, hdr, limit)),
         Newline)

\* The headings among names whose lowercased title holds a keyword.
MatchingHeadings(d, names, keywords) ==
    SelectSeq(find_all(d, names),
              LAMBDA h : ContainsAny(Lower(get_text(d, h, Space)), keywords))

services_blocks(d) ==
    LET hs == MatchingHeadings(d, {"h2", "h3"}, ServiceKeywords)
    IN  [n \in 1..Len(hs) |-> HeadingBlock(d, hs[n], ServicesSiblingLimit)]

\* soup.find_all(text=True) filtered by the keyword test: the strings whose
\* stripped, lowercased value holds a testimonial keyword, document order.
TestimonialStrings(d) ==
    SortedSeq({i \in 1..Len(d) :
        /\ d[i].kind = "text"
        /\ StripStr(d[i].s) # <<>>
        /\ ContainsAny(Lower(StripStr(d[i].s)), TestimonialKeywords)})

\* el.parent.get_text(" ", strip=True) for each of them.
ParentBlocks(d) ==
    LET ts == TestimonialStrings(d)
    IN  [n \in 1..Len(ts) |-> get_text(d, d[ts[n]].parent, Space)]

RECURSIVE AppendUnique(_, _)
\* if parent_block and parent_block not in testimonials: append
AppendUnique(acc, xs) ==
    IF xs = <<>> THEN acc
    ELSE AppendUnique(
            IF Head(xs) # <<>> /\ ~(\E i \in 1..Len(acc) : acc[i] = Head(xs))
            THEN Append(acc, Head(xs))
            ELSE acc,
            Tail(xs))

testimonials(d) == AppendUnique(<<>>, ParentBlocks(d))

\* The cap applied to the candidates, before the duplicates are dropped.
TestimonialsCapFirst(d) ==
    AppendUnique(<<>>, Take(ParentBlocks(d), TestimonialCap))

\* sections["testimonials"] = testimonials[:10]
TestimonialsValue(d) == Take(testimonials(d), TestimonialCap)

contact_texts(d) == TextsOf(d, find_all(d, {"form"}))

contact_headings(d) ==
    LET hs == MatchingHeadings(d, {"h2", "h3", "h4"}, ContactKeywords)
    IN  [n \in 1..Len(hs) |-> HeadingBlock(d, hs[n], ContactSiblingLimit)]

contacts(d) == contact_texts(d) \o contact_headings(d)

\* The key set without the test.
TruthyAlways(xs) == TRUE

\* if services_blocks: / if testimonials: / if contacts:
Truthy(xs) == xs # <<>>

Sections(d) ==
    LET h1 == find(d, "h1")
        keys == {k \in SectionNames :
                    \/ k = "hero" /\ HasH1(h1)
                    \/ k = "services" /\ Truthy(services_blocks(d))
                    \/ k = "testimonials" /\ Truthy(testimonials(d))
                    \/ k = "contact" /\ Truthy(contacts(d))}
    IN  [k \in keys |->
            CASE k = "hero" -> hero_text(d, h1)
              [] k = "services" -> services_blocks(d)
              [] k = "testimonials" -> TestimonialsValue(d)
              [] OTHER -> contacts(d)]

\* body = soup.find('body') or soup
RawTextScope(d) ==
    LET body == find(d, "body")
    IN  IF body # NoNode THEN body ELSE Root

RawText(d) == get_text(d, RawTextScope(d), Newline)

\* What a call ends in when it raises instead of returning.
Raised(what) == [raised |-> what]

\* The tree the sections are read from.
Soup(html) == RemoveScriptStyle(ParseHtml(html))

extract_text_and_sections(html) ==
    LET soup == Soup(html)
        h1 == find(soup, "h1")
    IN  IF HasH1(h1) /\ h1 = NoNode
        THEN Raised("AttributeError")
        ELSE [raw_text |-> RawText(soup),
              sections |-> Sections(soup),
              navigation |-> nav_items(soup)]

(***************************************************************************)
(* Input documents                                                         *)
(***************************************************************************)
\* <name href=...>s</name>
Leaf(name, href, s) == <<OpenTok(name, href), TextTok(s), CloseTok(name)>>

tA == <<"A">>
tB == <<" ", "B", " ">>
tBlank == <<" ", " ">>
tHome == <<" ", "H", "o", "m", "e", " ">>
tHello == <<"H", "e", "l", "l", "o">>
tEvil == <<"e", "v", "i", "l", "(", ")", " ", "f", "e", "e", "d", "b", "a", "c", "k">>
tServices == <<"O", "u", "r", " ", "S", "e", "r", "v", "i", "c", "e", "s">>
tContact == <<"C", "o", "n", "t", "a", "c", "t">>
tReviews == <<"u041E", "u0442", "u0437", "u044B", "u0432", "u044B">>
Marks == <<"a", "b", "c", "d", "e", "f", "g", "h", "i", "j", "k", "l", "m", "n", "o", "p">>
\* "Feedback a", "Feedback b", ...: as many distinct testimonials as needed.
tFeedback(i) == <<"F", "e", "e", "d", "b", "a", "c", "k", " ", Marks[i]>>

\* The longest input of each family, in markup pieces.
MaxNavFeeds == 4
MaxHeroFeeds == 5
MaxSectionFeeds == 4
MaxStripFeeds == 4
MaxTestimonialFeeds == 11

Families == {"nav", "hero", "sections", "strip", "testimonials"}

MaxFeeds(f) ==
    CASE f = "nav" -> MaxNavFeeds
      [] f = "hero" -> MaxHeroFeeds
      [] f = "sections" -> MaxSectionFeeds
      [] f = "strip" -> MaxStripFeeds
      [] OTHER -> MaxTestimonialFeeds

\* The number of distinct testimonial paragraphs already in the input.
FreshMark(h) ==
    Cardinality({i \in 1..Len(Marks) :
        \E n \in 1..Len(h) : h[n].k = "text" /\ h[n].s = tFeedback(i)}) + 1

\* The markup pieces an input of family f may continue with: start and end
\* tags on their own (so tags stay open, or close what was never opened),
\* loose text, and whole elements.
Pieces(f, h) ==
    CASE f = "nav" ->
            { <<OpenTok("nav", NoneVal)>>, <<CloseTok("nav")>>,
              <<OpenTok("li", NoneVal)>>,
              Leaf("a", "/x", tHome), Leaf("a", NoneVal, tB),
              Leaf("a", "/y", tBlank) }
      [] f = "hero" ->
            { Leaf("h1", NoneVal, tA), Leaf("p", NoneVal, tB),
              Leaf("p", NoneVal, tBlank), <<TextTok(tHello)>>,
              <<OpenTok("div", NoneVal)>>, <<CloseTok("div")>> }
      [] f = "sections" ->
            { Leaf("h2", NoneVal, tServices), Leaf("h3", NoneVal, tContact),
              <<OpenTok("form", NoneVal)>>, <<CloseTok("form")>>,
              Leaf("p", NoneVal, tReviews), <<TextTok(tBlank)>> }
      [] f = "strip" ->
            { Leaf("script", NoneVal, tEvil), Leaf("style", NoneVal, tEvil),
              <<OpenTok("noscript", NoneVal)>>, <<CloseTok("noscript")>>,
              Leaf("h1", NoneVal, tEvil), <<TextTok(tHello)>>,
              <<OpenTok("body", NoneVal)>> }
      [] OTHER ->
            { Leaf("p", NoneVal, tFeedback(FreshMark(h))),
              Leaf("p", NoneVal, tFeedback(1)) }

\* The pages the upstream serves.
PageOf(url) ==
    IF url = "u1"
    THEN <<OpenTok("nav", NoneVal)>> \o Leaf("a", "/x", tHome)
            \o <<CloseTok("nav")>> \o Leaf("h1", NoneVal, tA)
    ELSE Leaf("script", NoneVal, tEvil) \o Leaf("p", NoneVal, tReviews)

(***************************************************************************)
(* State                                                                   *)
(***************************************************************************)
VARIABLES
    family,   \* the family the input under construction belongs to
    html,     \* the argument of extract_text_and_sections, so far
    fed,      \* the number of markup pieces in html
    pc,       \* "feeding" | "returned"
    result,   \* what extract_text_and_sections(html) returned
    store,    \* the collection "sitecontent", in insertion order
    req,      \* the import requests: where each is, and its response
    got       \* the last response of GET /api/content

vars == <<family, html, fed, pc, result, store, req, got>>
extractVars == <<family, html, fed, pc, result>>
apiVars == <<store, req, got>>

NoResult == [none |-> TRUE]

(***************************************************************************)
(* The extractor on its own                                                *)
(***************************************************************************)
\* One more piece of markup arrives in the input.
FeedPiece ==
    /\ pc = "feeding"
    /\ fed < MaxFeeds(family)
    /\ \E piece \in Pieces(family, html) : html' = html \o piece
    /\ fed' = fed + 1
    /\ UNCHANGED <<family, pc, result, apiVars>>

\* extract_text_and_sections(html)
Extract ==
    /\ pc = "feeding"
    /\ result' = extract_text_and_sections(html)
    /\ pc' = "returned"
    /\ UNCHANGED <<family, html, fed, apiVars>>

(***************************************************************************)
(* The API layer                                                           *)
(***************************************************************************)
MaxReqs == 2
MaxLimit == 2
DefaultLimit == 1

Reqs == 1..MaxReqs
Limits == DefaultLimit..MaxLimit

\* ImportRequest(url, language)
ImportInputs ==
    { [url |-> "u1", language |-> NoneVal], [url |-> "u2", language |-> "ru"] }

\* requests.get(url, timeout=20) raises, or answers with a status.
UpstreamStatuses == {200, 301, 404, 500}
FetchOutcomes ==
    { [kind |-> "raise", status |-> 0] }
        \cup { [kind |-> "response", status |-> st] : st \in UpstreamStatuses }

\* str(status_code) inside the f-string
StatusStr(st) ==
    CASE st = 200 -> "200"
      [] st = 301 -> "301"
      [] st = 404 -> "404"
      [] OTHER -> "500"

HTTPException(status_code, detail) ==
    [status_code |-> status_code, detail |-> detail]

\* except Exception as e: raise HTTPException(status_code=400, ...)
FetchFailedResponse ==
    HTTPException(400, <<"Failed to fetch URL: ", "ConnectionError">>)

\* raise HTTPException(status_code=resp.status_code, ...)
UpstreamResponse(st) ==
    HTTPException(st, <<"Upstream returned ", StatusStr(st)>>)

\* The status test as `status_code >= 400`: a redirect would pass.
UpstreamOkBelow400(st) == st < 400

\* not (resp.status_code != 200)
UpstreamOk(st) == st = 200

\* The persisted record.
SiteContent(source_url, language, raw_html, raw_text, sections, navigation) ==
    [source_url |-> source_url,
     language |-> language,
     raw_html |-> raw_html,
     raw_text |-> raw_text,
     sections |-> sections,
     navigation |-> navigation]

\* doc = SiteContent(source_url=req.url, language=req.language, ...)
ImportDoc(input, text, extracted) ==
    SiteContent(input.url, input.language, text,
                extracted.raw_text, extracted.sections, extracted.navigation)

\* create_document("sitecontent", doc): one more record in the collection.
create_document(st, doc) == Append(st, doc)

\* get_documents("sitecontent", {}, limit=limit): the limit most recently
\* stored records, the latest first.
get_documents(st, limit) ==
    [n \in 1..(IF Len(st) < limit THEN Len(st) ELSE limit) |->
        st[Len(st) + 1 - n]]

\* The write tried a second time.
StoreAfterImportRetry(st, doc) == create_document(create_document(st, doc), doc)

\* inserted_id = create_document("sitecontent", doc), called once.
StoreAfterImport(st, doc) == create_document(st, doc)

\* The conversion with the language left out.
ToSiteContentNoLanguage(d) ==
    SiteContent(d.source_url, NoneVal, d.raw_html,
                d.raw_text, d.sections, d.navigation)

\* SiteContent(source_url=d.get("source_url", ""), language=d.get("language"), ...)
ToSiteContent(d) ==
    SiteContent(d.source_url, d.language, d.raw_html,
                d.raw_text, d.sections, d.navigation)

NoDoc == [none |-> TRUE]
NoResponse == [status_code |-> 0]
IdleReq ==
    [pc |-> "idle", input |-> [url |-> "", language |-> NoneVal],
     upstream |-> [kind |-> "none", status |-> 0],
     doc |-> NoDoc, resp |-> NoResponse,
     fetches |-> 0, creates |-> 0, slot |-> 0]

\* import_content, to the point where the record is assembled: the fetch,
\* the status check, the extraction.
import_content_fetch(r) ==
    /\ req[r].pc = "idle"
    /\ \E input \in ImportInputs, out \in FetchOutcomes :
        LET called == [req[r] EXCEPT !.input = input, !.upstream = out,
                                     !.fetches = @ + 1]
            extracted == extract_text_and_sections(PageOf(input.url))
        IN  req' = [req EXCEPT ![r] =
                IF out.kind = "raise"
                THEN [called EXCEPT !.pc = "done", !.resp = FetchFailedResponse]
                ELSE IF ~UpstreamOk(out.status)
                THEN [called EXCEPT !.pc = "done",
                                    !.resp = UpstreamResponse(out.status)]
                ELSE IF "raised" \in DOMAIN extracted
                THEN [called EXCEPT !.pc = "done",
                        !.resp = HTTPException(500, <<"Internal Server Error", "">>)]
                ELSE [called EXCEPT !.pc = "store",
                        !.doc = ImportDoc(input, PageOf(input.url), extracted)]]
    /\ UNCHANGED <<store, got, extractVars>>

\* import_content, from create_document on: the write succeeds and the
\* record is returned, or it raises and the answer is a 500.
import_content_store(r) ==
    /\ req[r].pc = "store"
    /\ \E ok \in BOOLEAN :
        IF ok
        THEN /\ store' = StoreAfterImport(store, req[r].doc)
             /\ req' = [req EXCEPT ![r] =
                    [@ EXCEPT !.pc = "done", !.creates = @ + 1,
                              !.slot = Len(store) + 1,
                              !.resp = [status_code |-> 200, body |-> req[r].doc]]]
        ELSE /\ store' = store
             /\ req' = [req EXCEPT ![r] =
                    [@ EXCEPT !.pc = "done", !.creates = @ + 1,
                              !.resp = HTTPException(500,
                                          <<"Database error: ", "StoreError">>)]]
    /\ UNCHANGED <<got, extractVars>>

\* get_latest_content(limit)
get_latest_content ==
    /\ \E limit \in Limits, ok \in BOOLEAN :
        got' = IF ok
               THEN LET docs == get_documents(store, limit)
                    IN  [status_code |-> 200,
                         body |-> [n \in 1..Len(docs) |-> ToSiteContent(docs[n])],
                         limit |-> limit, at |-> Len(store)]
               ELSE [status_code |-> 500, body |-> <<>>,
                     limit |-> limit, at |-> Len(store)]
    /\ UNCHANGED <<store, req, extractVars>>

(***************************************************************************)
(* Specifications                                                          *)
(***************************************************************************)
ApiIdle ==
    /\ store = <<>>
    /\ req = [r \in Reqs |-> IdleReq]
    /\ got = [status_code |-> 0, body |-> <<>>, limit |-> 0, at |-> 0]

\* The service: import and content requests, in any interleaving.
Init ==
    /\ ApiIdle
    /\ family = "nav"
    /\ html = <<>>
    /\ fed = 0
    /\ pc = "returned"
    /\ result = NoResult

Next ==
    \/ \E r \in Reqs : import_content_fetch(r)
    \/ \E r \in Reqs : import_content_store(r)
    \/ get_latest_content

Spec == Init /\ [][Next]_vars

\* The extractor: every input of every family, then the call.
InitExtract ==
    /\ ApiIdle
    /\ family \in Families
    /\ html = <<>>
    /\ fed = 0
    /\ pc = "feeding"
    /\ result = NoResult

NextExtract == FeedPiece \/ Extract

SpecExtract == InitExtract /\ [][NextExtract]_vars

(***************************************************************************)
(* Properties of the API layer (under Spec)                                *)
(***************************************************************************)
Done(r) == req[r].pc = "done"
FetchRaised(r) == req[r].upstream.kind = "raise"
UpstreamNot200(r) ==
    req[r].upstream.kind = "response" /\ req[r].upstream.status # 200
FetchFailed(r) == Done(r) /\ (FetchRaised(r) \/ UpstreamNot200(r))
Succeeded(r) == Done(r) /\ req[r].resp.status_code = 200
IsErrorResponse(resp) == "detail" \in DOMAIN resp

\* C1: whenever the fetch of an import raised or the upstream answered with
\* a status other than 200, the status of import's response is 400.
C1_FetchFailureIs400 ==
    \A r \in Reqs : FetchFailed(r) => req[r].resp.status_code = 400

SiteContentFields ==
    {"source_url", "language", "raw_html", "raw_text", "sections", "navigation"}

\* C3: a GET content call with the default limit, made when the record of a
\* successful import is the latest one stored, returns exactly one record,
\* and each of its six fields equals the field the import returned.
C3_RoundTrip ==
    (got.status_code = 200 /\ got.limit = DefaultLimit /\ got.at >= 1) =>
        \A r \in Reqs :
            (Succeeded(r) /\ req[r].slot = got.at) =>
                /\ Len(got.body) = 1
                /\ DOMAIN got.body[1] = SiteContentFields
                /\ \A f \in SiteContentFields :
                        got.body[1][f] = req[r].resp.body[f]

\* The import read back was the second one stored, of another page.
C3_Witness ==
    /\ got.status_code = 200
    /\ got.limit = DefaultLimit
    /\ got.at = 2
    /\ \E r \in Reqs : Succeeded(r) /\ req[r].slot = 2 /\ req[r].input.language = "ru"
    /\ store[1] # store[2]

\* C4: the stored records are exactly the records of the successful imports,
\* one each, none for an import that failed; an import fetches once and
\* calls create at most once (once when it succeeds); no step of any
\* request changes or removes a record that is stored.
C4_OneRecordPerImport ==
    /\ [](/\ Len(store) = Cardinality({r \in Reqs : Succeeded(r)})
          /\ \A r \in Reqs :
                /\ req[r].fetches <= 1
                /\ req[r].creates <= 1
                /\ Succeeded(r) =>
                      /\ req[r].fetches = 1
                      /\ req[r].creates = 1
                      /\ req[r].slot \in 1..Len(store)
                      /\ store[req[r].slot] = req[r].resp.body
                /\ (Done(r) /\ ~Succeeded(r)) => req[r].slot = 0
          /\ \A r1, r2 \in Reqs :
                (Succeeded(r1) /\ Succeeded(r2) /\ r1 # r2) =>
                    req[r1].slot # req[r2].slot)
    /\ [][/\ Len(store') >= Len(store)
          /\ SubSeq(store', 1, Len(store)) = store]_vars

\* Two imports succeeded, and a content request was answered after them.
C4_Witness ==
    /\ Cardinality({r \in Reqs : Succeeded(r)}) = 2
    /\ got.status_code = 200
    /\ got.at = 2

(***************************************************************************)
(* Properties of the extractor (under SpecExtract)                         *)
(***************************************************************************)
Returned == pc = "returned" /\ "raw_text" \in DOMAIN result
Range(xs) == {xs[i] : i \in 1..Len(xs)}

\* The anchors under a nav element with a label, with or without an href.
LabelledNavAnchors(d) ==
    {i \in 1..Len(d) :
        /\ d[i].kind = "tag" /\ d[i].name = "a"
        /\ InsideNamed(d, {"nav"}, d[i].parent)
        /\ get_text(d, i, <<>>) # <<>>}

NavEntries(d, anchors) ==
    LET as == SortedSeq(anchors)
    IN  [n \in 1..Len(as) |->
            [label |-> get_text(d, as[n], <<>>), href |-> d[as[n]].href]]

\* C5, as claimed: navigation has one entry, in document order, for every
\* labelled anchor under a nav element, those without an href included.
C5_NavEveryAnchor ==
    Returned =>
        LET d == Soup(html)
        IN  result.navigation = NavEntries(d, LabelledNavAnchors(d))

\* C5, amended: navigation has one entry, in document order and without
\* deduplication, for every labelled anchor under a nav element that has an
\* href attribute; an anchor without one gets no entry.
C5_NavAnchorsWithHref ==
    Returned =>
        LET d == Soup(html)
        IN  result.navigation
                = NavEntries(d, {i \in LabelledNavAnchors(d) : d[i].href # NoneVal})

\* A nav element held a labelled anchor without href and two with equal
\* label and href.
C5_Witness ==
    /\ Returned
    /\ \E i \in LabelledNavAnchors(Soup(html)) : Soup(html)[i].href = NoneVal
    /\ Len(result.navigation) = 2
    /\ result.navigation[1] = result.navigation[2]

Marker == <<"e", "v", "i", "l">>

\* Every string of a result: raw_text, the entries of the sections, the
\* navigation labels.
OutputStrings(res) ==
    {res.raw_text}
        \cup UNION {Range(res.sections[k]) : k \in DOMAIN res.sections}
        \cup {res.navigation[i].label : i \in 1..Len(res.navigation)}

\* The strings of the parsed input outside script, style and noscript.
OutsideStrings(p) ==
    {i \in 1..Len(p) :
        p[i].kind = "text" /\ ~InsideNamed(p, {"script", "style", "noscript"}, i)}

\* The strings that raw_text is taken from: those under the first body
\* element that is outside script, style and noscript, or all of them when
\* there is no such element.
BodyStrings(p) ==
    LET bodies == {b \in 1..Len(p) :
                    /\ p[b].kind = "tag" /\ p[b].name = "body"
                    /\ ~InsideNamed(p, {"script", "style", "noscript"}, b)}
    IN  IF bodies = {} THEN OutsideStrings(p)
        ELSE {i \in OutsideStrings(p) :
                IsUnder(p, CHOOSE b \in bodies : \A c \in bodies : b <= c, i)}

\* C6, as claimed: when the marker text occurs only inside script, style or
\* noscript elements, no string of the result contains it; and every string
\* of the document outside those elements is in raw_text, trimmed.
C6_AllOutsideTextKept ==
    Returned =>
        LET p == ParseHtml(html)
        IN  /\ (\A i \in OutsideStrings(p) : ~Contains(p[i].s, Marker)) =>
                    \A out \in OutputStrings(result) : ~Contains(out, Marker)
            /\ \A i \in OutsideStrings(p) :
                    StripStr(p[i].s) = <<>>
                        \/ Contains(result.raw_text, StripStr(p[i].s))

\* C6, amended: when the marker text occurs only inside script, style or
\* noscript elements, no string of the result contains it; and every string
\* outside those elements that lies in the body element, or anywhere in a
\* document without a body element, is in raw_text, trimmed.
C6_NoScriptText ==
    Returned =>
        LET p == ParseHtml(html)
        IN  /\ (\A i \in OutsideStrings(p) : ~Contains(p[i].s, Marker)) =>
                    \A out \in OutputStrings(result) : ~Contains(out, Marker)
            /\ \A i \in BodyStrings(p) :
                    StripStr(p[i].s) = <<>>
                        \/ Contains(result.raw_text, StripStr(p[i].s))

\* The marker stood in a script and in a heading inside a noscript, and
\* Hello outside them.
C6_Witness ==
    /\ Returned
    /\ LET p == ParseHtml(html)
       IN  /\ \E i \in 1..Len(p) :
                /\ p[i].kind = "text" /\ Contains(p[i].s, Marker)
                /\ p[i].parent # Root
                /\ p[p[i].parent].name = "script"
           /\ \E i \in 1..Len(p) :
                /\ p[i].kind = "text" /\ Contains(p[i].s, Marker)
                /\ p[i].parent # Root
                /\ p[p[i].parent].name = "h1"
           /\ \A i \in OutsideStrings(p) : ~Contains(p[i].s, Marker)
    /\ result.raw_text = tHello

\* C7: for every input (the empty one, text without tags, tags left open,
\* end tags that close nothing) the call returns, without raising, a result
\* with exactly the fields raw_text, sections and navigation.
C7_AlwaysReturns ==
    pc = "returned" => DOMAIN result = {"raw_text", "sections", "navigation"}

\* The input left a tag open and had an end tag that closed nothing.
C7_Witness ==
    /\ pc = "returned"
    /\ FeedAll(InitParser, html).cur # Root
    /\ \E n \in 1..Len(html) :
          /\ html[n].k = "close"
          /\ FeedAll(InitParser, SubSeq(html, 1, n - 1)).cur = Root
    /\ DOMAIN result = {"raw_text", "sections", "navigation"}

HasElement(d, name) == \E i \in 1..Len(d) : d[i].kind = "tag" /\ d[i].name = name

\* C8: the keys of sections are among hero, services, testimonials and
\* contact; hero is a key exactly when the document (script, style and
\* noscript removed) has an h1; services, testimonials and contact are
\* never present with an empty sequence.
C8_SectionKeys ==
    Returned =>
        /\ DOMAIN result.sections \subseteq SectionNames
        /\ ("hero" \in DOMAIN result.sections) <=> HasElement(Soup(html), "h1")
        /\ \A k \in DOMAIN result.sections \ {"hero"} : result.sections[k] # <<>>

\* Services, testimonials and contact were detected and no h1 was there.
C8_Witness ==
    /\ Returned
    /\ DOMAIN result.sections = {"services", "testimonials", "contact"}

\* The sibling elements after e, in document order.
SiblingElementsAfter(d, e) ==
    {j \in 1..Len(d) : j > e /\ d[j].kind = "tag" /\ d[j].parent = d[e].parent}

\* C9: hero is the trimmed text of the first h1 followed by the non-empty
\* trimmed texts of the sibling elements after it that have fewer than 3
\* sibling elements between the h1 and themselves, in order.
C9_HeroFirstThree ==
    (Returned /\ HasElement(Soup(html), "h1")) =>
        LET d == Soup(html)
            h1 == CHOOSE i \in 1..Len(d) :
                    /\ d[i].kind = "tag" /\ d[i].name = "h1"
                    /\ \A j \in 1..(i - 1) : ~(d[j].kind = "tag" /\ d[j].name = "h1")
            sibs == SiblingElementsAfter(d, h1)
            near == SortedSeq({j \in sibs :
                        Cardinality({k \in sibs : k < j}) < 3})
            texts == [n \in 1..Len(near) |-> get_text(d, near[n], Space)]
        IN  result.sections["hero"]
                = <<get_text(d, h1, Space)>> \o SelectSeq(texts, LAMBDA t : t # <<>>)

\* The h1 had four sibling elements with text after it, and hero has the
\* heading and the first three.
C9_Witness ==
    /\ Returned
    /\ HasElement(Soup(html), "h1")
    /\ LET d == Soup(html)
           h1 == find(d, "h1")
       IN  Cardinality({j \in SiblingElementsAfter(d, h1) :
                            get_text(d, j, Space) # <<>>}) = 4
    /\ Len(result.sections["hero"]) = 4

\* C10: testimonials holds no string twice and at most 10 strings: the first
\* 10 distinct parent texts of the matching strings, in the order of their
\* first occurrence; the key is absent when no string matches.
C10_TestimonialsDistinctCapped ==
    Returned =>
        LET c == ParentBlocks(Soup(html))
            firsts == SortedSeq({i \in 1..Len(c) :
                        \A j \in 1..(i - 1) : c[j] # c[i]})
            expected == [n \in 1..(IF Len(firsts) < 10 THEN Len(firsts) ELSE 10)
                            |-> c[firsts[n]]]
        IN  IF c = <<>>
            THEN "testimonials" \notin DOMAIN result.sections
            ELSE /\ "testimonials" \in DOMAIN result.sections
                 /\ result.sections["testimonials"] = expected
                 /\ Len(result.sections["testimonials"]) <= 10
                 /\ \A i, j \in 1..Len(result.sections["testimonials"]) :
                        i # j => result.sections["testimonials"][i]
                                    # result.sections["testimonials"][j]

\* Eleven matching paragraphs, one of the first ten a repeat, ten distinct
\* texts in all: all ten are kept.
C10_Witness ==
    /\ Returned
    /\ LET c == ParentBlocks(Soup(html))
       IN  /\ Len(c) = 11
           /\ Cardinality(Range(Take(c, 10))) = 9
           /\ Cardinality(Range(c)) = 10
    /\ Len(result.sections["testimonials"]) = 10

====
